---- MODULE Spec2Model ----
(***************************************************************************)
(* SurfCheck data pipeline (scripts/fetch_forecast.py): sentinel-aware     *)
(* numeric parsing, buoy text decoding, spectral merging, forecast run     *)
(* discovery and grid-point extraction, as a state machine.                *)
(*                                                                         *)
(* Numbers.  A Python float is modelled as an exact decimal                *)
(*   [kind |-> "num", m |-> mantissa, e |-> number of fractional digits]   *)
(* kept normalised (no trailing fractional zero), so that record equality  *)
(* is numeric equality; within the token lengths used here distinct short  *)
(* decimals are distinct doubles.  None is [kind |-> "none"], a            *)
(* not-a-number is [kind |-> "nan"].                                       *)
(*                                                                         *)
(* Text.  A token is a tuple of one-character strings, a line is the       *)
(* tuple of its whitespace-separated tokens (str.split()), a text is a     *)
(* tuple of lines (a blank line is the empty tuple).                       *)
(***************************************************************************)
EXTENDS Integers, Sequences, FiniteSets, TLC

VARIABLES
    val,          \* safe_float / safe_float_wave: the raw text argument
    sfCall,       \* which filter was applied to val ("none" before the call)
    sfRet,        \* the value the filter returned
    stdmet_text,  \* parse_stdmet: its argument
    spec_text,    \* parse_data_spec: the spectral-density text
    swdir_text,   \* parse_data_spec: the direction text
    parsed,       \* the parsers that have run
    stdmetRet,    \* what parse_stdmet returned
    spectralRet,  \* what parse_data_spec returned
    spectralIdx,  \* for each returned bin, the loop index i that emitted it
    buoy_only,    \* main: args.buoy_only
    xrAvailable,  \* whether "import xarray" succeeds on this machine
    pc,           \* the statement main, fetch_buoy or fetch_forecast is at
    invoked,      \* the paths main has called
    fetchLog,     \* the fetch_text calls of fetch_buoy and how each ended
    buoyJson,     \* data/buoy.json
    day_offset,   \* fetch_forecast: the outer loop variable
    cycleIdx,     \* fetch_forecast: the position of the inner loop in Cycles
    url,          \* fetch_forecast: the candidate last tried
    ds,           \* fetch_forecast: the opened dataset, or None
    tried,        \* the xr.open_dataset calls made and how each ended
    selCount,     \* the nearest-grid-point selections made
    ds_point,     \* fetch_forecast: the dataset at the selected grid point
    tPos,         \* fetch_forecast: the position of the hour loop in the time axis
    hours,        \* fetch_forecast: the records appended so far
    rawHours,     \* for each record, the grid point and the values read for it
    forecastJson  \* data/forecast.json

filterVars == <<val, sfCall, sfRet>>
parseVars == <<stdmet_text, spec_text, swdir_text, parsed, stdmetRet,
               spectralRet, spectralIdx>>
pipeVars == <<buoy_only, xrAvailable, pc, invoked, fetchLog, buoyJson, day_offset,
              cycleIdx, url, ds, tried, selCount, ds_point, tPos, hours, rawHours,
              forecastJson>>
vars == <<filterVars, parseVars, pipeVars>>

----------------------------------------------------------------------------
(* Bounds *)

\* longest raw token handed to the filters under SpecFilter
MaxTokLen == 5
\* most values after the timestamp in a spectral data row
MaxBins == 3
\* most blank lines before the header of a text
MaxBlank == 1
\* most fields in a standard-meteorology data row
MaxRowLen == 16
\* most timestamps on the time axis of a dataset
MaxHours == 2

----------------------------------------------------------------------------
(* Numbers *)

None == [kind |-> "none", m |-> 0, e |-> 0]
NaN  == [kind |-> "nan", m |-> 0, e |-> 0]

RECURSIVE Pow10(_)
Pow10(n) == IF n = 0 THEN 1 ELSE 10 * Pow10(n - 1)

RECURSIVE Norm(_, _)
\* strip trailing fractional zeros: 99.00 and 99 are the same float
Norm(m, e) ==
    IF e > 0 /\ m % 10 = 0 THEN Norm(m \div 10, e - 1)
    ELSE [kind |-> "num", m |-> m, e |-> e]

Dec(m, e) == Norm(m, e)

IsNum(v) == v.kind = "num"

\* v > k for a float v and a decimal k = km / 10^ke (v is a number)
GtDec(v, km, ke) == v.m * Pow10(ke) > km * Pow10(v.e)

----------------------------------------------------------------------------
(* float(val): the decimal grammar  [-] digits [. [digits]]  |  [-] . digits *)

Digits == {"0", "1", "2", "3", "4", "5", "6", "7", "8", "9"}

DigitVal(c) ==
    CASE c = "0" -> 0 [] c = "1" -> 1 [] c = "2" -> 2 [] c = "3" -> 3
      [] c = "4" -> 4 [] c = "5" -> 5 [] c = "6" -> 6 [] c = "7" -> 7
      [] c = "8" -> 8 [] c = "9" -> 9

\* the token without its leading sign
Unsigned(tok) ==
    IF Len(tok) > 0 /\ tok[1] = "-" THEN SubSeq(tok, 2, Len(tok)) ELSE tok

\* positions of "." in a character sequence
DotsAt(s) == {i \in 1..Len(s) : s[i] = "."}

\* float(tok) does not raise ValueError
FloatOk(tok) ==
    LET b == Unsigned(tok) IN
    /\ \A i \in 1..Len(b) : b[i] \in Digits \cup {"."}
    /\ Cardinality(DotsAt(b)) <= 1
    /\ \E i \in 1..Len(b) : b[i] \in Digits

RECURSIVE DigitsValue(_)
\* the integer written by the digits of s, its "." skipped
DigitsValue(s) ==
    IF Len(s) = 0 THEN 0
    ELSE IF s[Len(s)] = "." THEN DigitsValue(SubSeq(s, 1, Len(s) - 1))
    ELSE 10 * DigitsValue(SubSeq(s, 1, Len(s) - 1)) + DigitVal(s[Len(s)])

\* number of digits after the "."
FracLen(s) ==
    IF DotsAt(s) = {} THEN 0 ELSE Len(s) - (CHOOSE i \in DotsAt(s) : TRUE)

\* float(tok), for a token float() accepts
FloatVal(tok) ==
    LET b == Unsigned(tok)
        sign == IF Len(tok) > 0 /\ tok[1] = "-" THEN -1 ELSE 1
    IN Dec(sign * DigitsValue(b), FracLen(b))

----------------------------------------------------------------------------
(* Helpers: safe_float, safe_float_wave *)

MISSING_VALS == {Dec(990, 1), Dec(9990, 1), Dec(99990, 1), Dec(9900, 2), Dec(99900, 2)}

\* a mutant of safe_float that forgets the 9999 sentinel
safe_float_no9999(tok, missing_extra) ==
    IF ~FloatOk(tok) THEN None
    ELSE LET f == FloatVal(tok) IN
         IF f \in {Dec(99, 0), Dec(999, 0)} THEN None
         ELSE IF f \in missing_extra THEN None
         ELSE f

safe_float(tok, missing_extra) ==
    IF ~FloatOk(tok) THEN None
    ELSE LET f == FloatVal(tok) IN
         IF f \in MISSING_VALS THEN None
         ELSE IF f \in missing_extra THEN None
         ELSE f

safe_float_wave(tok) ==
    LET f == safe_float(tok, {Dec(99, 1)}) IN
    IF f # None /\ GtDec(f, 80, 1) THEN None ELSE f

----------------------------------------------------------------------------
(* round(x, ndigits) on a number: to the nearest multiple of 10^-nd, an
   exact decimal tie going to the even neighbour *)

Round(v, nd) ==
    IF ~IsNum(v) \/ v.e <= nd THEN v
    ELSE LET scale == Pow10(v.e - nd)
             q == v.m \div scale
             r == v.m - q * scale
             up == \/ 2 * r > scale
                   \/ 2 * r = scale /\ q % 2 = 1
         IN Dec(IF up THEN q + 1 ELSE q, nd)

\* round(1.0 / f, 1) for a number f > 0: the nearest tenth of 10^e / m
PeriodOf(f) ==
    LET num == Pow10(f.e + 1) IN Dec((2 * num + f.m) \div (2 * f.m), 1)

----------------------------------------------------------------------------
(* Text helpers: str.strip().splitlines(), str.replace, str.split, slices *)

RECURSIVE DropLeadingBlank(_)
DropLeadingBlank(text) ==
    IF Len(text) > 0 /\ text[1] = <<>> THEN DropLeadingBlank(Tail(text))
    ELSE text

RECURSIVE DropTrailingBlank(_)
DropTrailingBlank(text) ==
    IF Len(text) > 0 /\ text[Len(text)] = <<>>
    THEN DropTrailingBlank(SubSeq(text, 1, Len(text) - 1))
    ELSE text

\* text.strip().splitlines(): the blank lines at both ends are gone
StripLines(text) == DropTrailingBlank(DropLeadingBlank(text))

RECURSIVE SplitMarkers(_, _)
\* one token after .replace("#", "").replace("(", " ").replace(")", " ")
\* and .split(): its "#" removed, cut at each parenthesis, no empty piece;
\* cur is the piece being read
SplitMarkers(tok, cur) ==
    IF Len(tok) = 0 THEN (IF cur = <<>> THEN <<>> ELSE <<cur>>)
    ELSE IF tok[1] = "#" THEN SplitMarkers(Tail(tok), cur)
    ELSE IF tok[1] \in {"(", ")"}
         THEN (IF cur = <<>> THEN <<>> ELSE <<cur>>) \o SplitMarkers(Tail(tok), <<>>)
    ELSE SplitMarkers(Tail(tok), Append(cur, tok[1]))

RECURSIVE StripMarkers(_)
\* a whole line so treated
StripMarkers(line) ==
    IF Len(line) = 0 THEN <<>>
    ELSE SplitMarkers(line[1], <<>>) \o StripMarkers(Tail(line))

\* seq[n:]
From(seq, n) == IF Len(seq) <= n THEN <<>> ELSE SubSeq(seq, n + 1, Len(seq))

Min3(a, b, c) ==
    IF a <= b /\ a <= c THEN a ELSE IF b <= c THEN b ELSE c

\* f"{row[0]}-{row[1]}-{row[2]}T{row[3]}:{row[4]}Z"
TimeStr(row) ==
    row[1] \o <<"-">> \o row[2] \o <<"-">> \o row[3] \o <<"T">> \o row[4]
           \o <<":">> \o row[5] \o <<"Z">>

----------------------------------------------------------------------------
(* Part 1: parse_stdmet *)

\* what a parser yields when an index is out of range
IndexError == [kind |-> "IndexError"]

\* the row positions (0-based) the Reading is built from, given the two
\* length guards of the temperature fields
StdmetReads(row, waterGuard, airGuard) ==
    (0..12) \cup (IF waterGuard THEN {14} ELSE {}) \cup (IF airGuard THEN {13} ELSE {})

\* the Reading of a data row; the temperatures are read when their guard holds
Reading(row, waterGuard, airGuard) ==
    IF \E i \in StdmetReads(row, waterGuard, airGuard) : i >= Len(row)
    THEN IndexError
    ELSE [kind |-> "reading",
          time |-> TimeStr(row),
          waveHeight_m |-> safe_float_wave(row[9]),
          dominantPeriod_s |-> safe_float(row[10], {}),
          avgPeriod_s |-> safe_float(row[11], {}),
          meanDirection_deg |-> safe_float(row[12], {}),
          waterTemp_C |-> IF waterGuard THEN safe_float(row[15], {}) ELSE None,
          windSpeed_mps |-> safe_float(row[7], {}),
          windDir_deg |-> safe_float(row[6], {}),
          pressure_hPa |-> safe_float(row[13], {}),
          gust_mps |-> safe_float(row[8], {}),
          airTemp_C |-> IF airGuard THEN safe_float(row[14], {}) ELSE None]

\* a mutant of parse_stdmet whose water-temperature guard is off by one
parse_stdmet_guard13(text) ==
    LET lines == StripLines(text) IN
    IF Len(lines) < 3 THEN None
    ELSE LET row == lines[3] IN
         IF Len(row) < 13 THEN None
         ELSE Reading(row, Len(row) > 13, Len(row) > 13)

parse_stdmet(text) ==
    LET lines == StripLines(text) IN
    IF Len(lines) < 3 THEN None
    ELSE LET row == lines[3] IN
         IF Len(row) < 13 THEN None
         ELSE Reading(row, Len(row) > 14, Len(row) > 13)

----------------------------------------------------------------------------
(* Part 1: parse_data_spec *)

\* the tokens read as frequencies: line 1 of the density text, its markers
\* stripped, without its first five tokens
FreqTokens(spec_lines) == From(StripMarkers(spec_lines[2]), 5)

\* a mutant of the frequency loop that appends every value, None included
KeepParsed_keepNone(toks) == [i \in 1..Len(toks) |-> safe_float(toks[i], {})]

RECURSIVE KeepParsed(_)
\* the loop of lines 131-135: a token safe_float turns into None is not appended
KeepParsed(toks) ==
    IF Len(toks) = 0 THEN <<>>
    ELSE LET f == safe_float(toks[1], {}) IN
         (IF f # None THEN <<f>> ELSE <<>>) \o KeepParsed(Tail(toks))

\* the loops of lines 137-144: every token is appended, None included
AllParsed(toks) == [i \in 1..Len(toks) |-> safe_float(toks[i], {})]

\* the entry appended for index i (1-based here, i - 1 in the source)
Bin(freqs, densities, directions, i) ==
    [freq |-> Round(freqs[i], 4),
     period_s |-> IF GtDec(freqs[i], 0, 0) THEN PeriodOf(freqs[i]) ELSE None,
     energy |-> Round(densities[i], 2),
     direction_deg |-> Round(directions[i], 1)]

RECURSIVE MergeFrom(_, _, _, _)
\* a mutant of the merge loop that stops at the first index with a None
merge_loop_stop(freqs, densities, directions, i) ==
    IF i > Min3(Len(freqs), Len(densities), Len(directions)) THEN <<>>
    ELSE IF densities[i] # None /\ directions[i] # None /\ freqs[i] # None
         THEN <<[i |-> i, bin |-> Bin(freqs, densities, directions, i)]>>
              \o MergeFrom(freqs, densities, directions, i + 1)
         ELSE <<>>

\* the loop of lines 147-155 from index i on: the entries appended, each
\* with the index that appended it
merge_loop(freqs, densities, directions, i) ==
    IF i > Min3(Len(freqs), Len(densities), Len(directions)) THEN <<>>
    ELSE (IF densities[i] # None /\ directions[i] # None /\ freqs[i] # None
          THEN <<[i |-> i, bin |-> Bin(freqs, densities, directions, i)]>>
          ELSE <<>>)
         \o MergeFrom(freqs, densities, directions, i + 1)

MergeFrom(freqs, densities, directions, i) == merge_loop(freqs, densities, directions, i)

\* parse_data_spec, its entries still carrying their loop index
parse_data_spec_indexed(spec, swdir) ==
    LET spec_lines == StripLines(spec)
        swdir_lines == StripLines(swdir)
    IN IF Len(spec_lines) < 3 \/ Len(swdir_lines) < 3 THEN <<>>
       ELSE LET spec_row == spec_lines[3]
                swdir_row == swdir_lines[3]
            IN IF Len(spec_row) < 7 \/ Len(swdir_row) < 7 THEN <<>>
               ELSE merge_loop(KeepParsed(FreqTokens(spec_lines)),
                               AllParsed(From(spec_row, 5)),
                               AllParsed(From(swdir_row, 5)), 1)

parse_data_spec(spec, swdir) ==
    LET es == parse_data_spec_indexed(spec, swdir) IN
    [k \in 1..Len(es) |-> es[k].bin]

----------------------------------------------------------------------------
(* SpecFilter: the two filters applied to every short raw token *)

Chars == {"0", "4", "8", "9", ".", "-", "x"}

RECURSIVE SeqsUpTo(_, _)
\* the non-empty sequences over S of length at most n
SeqsUpTo(S, n) ==
    IF n = 0 THEN {}
    ELSE LET shorter == SeqsUpTo(S, n - 1) IN
         {<<c>> : c \in S} \cup shorter \cup
         {Append(s, c) : s \in {t \in shorter : Len(t) = n - 1}, c \in S}

Tokens == SeqsUpTo(Chars, MaxTokLen)

\* the states in which a group of variables is not in use

\* a file that was not written, a dataset that was not opened
Absent == [kind |-> "absent"]

FilterIdle ==
    /\ val = <<>>
    /\ sfCall = "none"
    /\ sfRet = None

ForecastIdle ==
    /\ day_offset = 0
    /\ cycleIdx = 1
    /\ url = Absent
    /\ ds = None
    /\ tried = <<>>
    /\ selCount = 0
    /\ ds_point = Absent
    /\ tPos = 1
    /\ hours = <<>>
    /\ rawHours = <<>>
    /\ forecastJson = Absent

PipeIdle ==
    /\ buoy_only = FALSE
    /\ xrAvailable = TRUE
    /\ pc = "idle"
    /\ invoked = {}
    /\ fetchLog = <<>>
    /\ buoyJson = Absent
    /\ ForecastIdle

ParseIdle ==
    /\ stdmet_text = <<>>
    /\ spec_text = <<>>
    /\ swdir_text = <<>>
    /\ parsed = {}
    /\ stdmetRet = None
    /\ spectralRet = <<>>
    /\ spectralIdx = <<>>

FilterInit ==
    /\ val \in Tokens
    /\ sfCall = "none"
    /\ sfRet = None
    /\ ParseIdle
    /\ PipeIdle

CallSafeFloat ==
    /\ sfCall = "none"
    /\ sfCall' = "safe_float"
    /\ sfRet' = safe_float(val, {})
    /\ UNCHANGED <<val, parseVars, pipeVars>>

CallSafeFloatWave ==
    /\ sfCall = "none"
    /\ sfCall' = "safe_float_wave"
    /\ sfRet' = safe_float_wave(val)
    /\ UNCHANGED <<val, parseVars, pipeVars>>

FilterNext == CallSafeFloat \/ CallSafeFloatWave

SpecFilter == FilterInit /\ [][FilterNext]_vars

----------------------------------------------------------------------------
(* SpecParse: the two parsers applied to bounded buoy texts *)

\* the five timestamp fields of a data row: 2024 01 05 10 30
TsFields ==
    << <<"2", "0", "2", "4">>, <<"0", "1">>, <<"0", "5">>, <<"1", "0">>, <<"3", "0">> >>

MM == <<"M", "M">>

\* line 0 of every text: "#YY MM DD hh mm"
HeaderLine == << <<"#", "Y", "Y">>, MM, <<"D", "D">>, <<"h", "h">>, <<"m", "m">> >>
\* line 1 of a standard-meteorology or direction text: "#yr mo dy hr mn"
UnitsLine == << <<"#", "y", "r">>, <<"m", "o">>, <<"d", "y">>, <<"h", "r">>, <<"m", "n">> >>

\* WVHT fields: 1.2, the 9.9 sentinel, 8.5 and 8.04 over the ceiling, 8.0 on
\* it, the 99.00 sentinel, and NDBC's MM
WaveToks ==
    { <<"1", ".", "2">>, <<"9", ".", "9">>, <<"8", ".", "5">>, <<"8", ".", "0", "4">>,
      <<"8", ".", "0">>, <<"9", "9", ".", "0", "0">>, MM }

\* ATMP fields
AirToks == { <<"1", "5", ".", "5">>, <<"9", "9", "9", ".", "0">> }

\* YY MM DD hh mm WDIR WSPD GST WVHT DPD APD MWD PRES ATMP WTMP
StdmetFields(wvht, atmp) ==
    TsFields \o
    << <<"9", "0">>, <<"5", ".", "0">>, <<"7", ".", "0">>, wvht, <<"9">>,
       <<"6", ".", "5">>, <<"9", "9", "9">>, <<"1", "0", "1", "5", ".", "2">>,
       atmp, <<"1", "2", ".", "1">> >>

\* a data row of n fields: the fifteen above, cut or padded with MM
StdmetRow(wvht, atmp, n) ==
    [i \in 1..n |-> IF i <= 15 THEN StdmetFields(wvht, atmp)[i] ELSE MM]

StdmetRows ==
    {StdmetRow(w, a, n) : w \in WaveToks, a \in AirToks, n \in 0..MaxRowLen}

\* k blank lines
Blank(k) == [i \in 1..k |-> <<>>]

\* texts of zero to four lines, after up to MaxBlank blank lines and before
\* one more: a line-1 l1 and a newest data row
TextsOf(l1s, rows) ==
    LET bodies == {<<>>, <<HeaderLine>>}
                  \cup {<<HeaderLine, l1>> : l1 \in l1s}
                  \cup {<<HeaderLine, l1, r>> : l1 \in l1s, r \in rows}
    IN {Blank(k) \o b : k \in 0..MaxBlank, b \in bodies}
       \cup {b \o <<TsFields>> \o Blank(1) : b \in bodies}

StdmetTexts == TextsOf({UnitsLine}, StdmetRows)

F0325 == <<"0", ".", "0", "3", "2", "5">>
F0375 == <<"0", ".", "0", "3", "7", "5">>
F0425 == <<"0", ".", "0", "4", "2", "5">>
F0475 == <<"0", ".", "0", "4", "7", "5">>
F0525 == <<"0", ".", "0", "5", "2", "5">>
T999 == <<"9", "9", "9", ".", "0">>

\* line 1 of the density text: plain frequencies; each with a parenthesised
\* annotation; after a lone "#"; led by a sentinel; too short; with a zero
\* and a negative frequency
FreqLines ==
    { HeaderLine \o <<F0325, F0375, F0425, F0475, F0525>>,
      HeaderLine \o << F0325 \o <<"(", "x", ")">>, F0375 \o <<"(", "x", ")">> >>,
      << <<"#">> >> \o Tail(HeaderLine) \o <<F0325, F0375, F0425>>,
      HeaderLine \o <<T999, F0375, F0425, F0475, F0525>>,
      <<HeaderLine[1], MM>>,
      HeaderLine \o << <<"0">>, <<"-", "0", ".", "5">>, F0325, F0375 >> }

DensityToks == { <<"1", ".", "2", "3", "4">>, T999 }
DirectionToks == { <<"8", "0", ".", "0", "6">>, T999 }

RECURSIVE SeriesUpTo(_, _)
\* the sequences over S of length at most n, the empty one included
SeriesUpTo(S, n) ==
    IF n = 0 THEN {<<>>}
    ELSE LET shorter == SeriesUpTo(S, n - 1) IN
         shorter \cup {Append(s, c) : s \in {t \in shorter : Len(t) = n - 1}, c \in S}

SpecTexts ==
    TextsOf(FreqLines, {TsFields \o s : s \in SeriesUpTo(DensityToks, MaxBins)})

SwdirTexts ==
    LET rows == {TsFields \o s : s \in SeriesUpTo(DirectionToks, MaxBins)} IN
    {<<>>, <<HeaderLine, UnitsLine>>} \cup {<<HeaderLine, UnitsLine, r>> : r \in rows}

ParseInit ==
    /\ FilterIdle
    /\ PipeIdle
    /\ parsed = {}
    /\ stdmetRet = None
    /\ spectralRet = <<>>
    /\ spectralIdx = <<>>
    /\ \/ /\ stdmet_text \in StdmetTexts
          /\ spec_text = <<>>
          /\ swdir_text = <<>>
       \/ /\ stdmet_text = <<>>
          /\ spec_text \in SpecTexts
          /\ swdir_text \in SwdirTexts

DoParseStdmet ==
    /\ "parse_stdmet" \notin parsed
    /\ parsed' = parsed \cup {"parse_stdmet"}
    /\ stdmetRet' = parse_stdmet(stdmet_text)
    /\ UNCHANGED <<stdmet_text, spec_text, swdir_text, spectralRet, spectralIdx>>
    /\ UNCHANGED <<filterVars, pipeVars>>

DoParseDataSpec ==
    /\ "parse_data_spec" \notin parsed
    /\ parsed' = parsed \cup {"parse_data_spec"}
    /\ spectralRet' = parse_data_spec(spec_text, swdir_text)
    /\ spectralIdx' = LET es == parse_data_spec_indexed(spec_text, swdir_text)
                      IN [k \in 1..Len(es) |-> es[k].i]
    /\ UNCHANGED <<stdmet_text, spec_text, swdir_text, stdmetRet>>
    /\ UNCHANGED <<filterVars, pipeVars>>

ParseNext == DoParseStdmet \/ DoParseDataSpec

SpecParse == ParseInit /\ [][ParseNext]_vars

----------------------------------------------------------------------------
(* Part 1: fetch_buoy.  Part 2: fetch_forecast.  main. *)

BUOY == <<"4", "4", "0", "9", "7">>

\* TARGET_LAT = 41.003, TARGET_LON = -71.6 and gfs_lon = 360 + TARGET_LON
TARGET_LAT == Dec(41003, 3)
TARGET_LON == Dec(-716, 1)
gfs_lon == Dec(3600 + TARGET_LON.m, 1)

\* the issuance cycles in the order they are tried within one day
Cycles == <<"12", "06", "00">>

\* the variables requested of every timestamp
VARS ==
    {"htsgwsfc", "perpwsfc", "dirpwsfc", "wvhgtsfc", "wvpersfc", "wvdirsfc",
     "swell_1", "swper_1", "swdir_1", "swell_2", "swper_2", "swdir_2",
     "wndspdsfc", "wnddirsfc"}

\* url.split("/")[-1]: the run name carries the cycle alone
RunName(u) == <<"gfswave.global.0p16_", u.cycle, "z">>

\* the time axis of a dataset of n timestamps: one every three hours
TimeAxis(n) == [k \in 1..n |-> 3 * (k - 1)]

\* the texts fetch_text may return for the three buoy sources
PipeStdmetTexts ==
    { <<HeaderLine, UnitsLine, StdmetRow(<<"1", ".", "2">>, <<"1", "5", ".", "5">>, 15)>>,
      <<HeaderLine, UnitsLine, StdmetRow(<<"8", ".", "0", "4">>, <<"1", "5", ".", "5">>, 15)>>,
      <<HeaderLine, UnitsLine>> }
PipeSpecTexts ==
    { <<HeaderLine, HeaderLine \o <<F0325, F0375, F0425>>,
        TsFields \o << <<"1", ".", "2", "3", "4">>, T999, <<"1", ".", "2", "3", "4">> >> >> }
PipeSwdirTexts ==
    { <<HeaderLine, UnitsLine,
        TsFields \o << <<"8", "0", ".", "0", "6">>, <<"8", "0", ".", "0", "6">>,
                       <<"8", "0", ".", "0", "6">> >> >> }

\* the variables an opened dataset may hold
DsVarSets == { {"htsgwsfc", "perpwsfc", "lat_bnds"}, {"htsgwsfc"}, {"perpwsfc"}, {} }

\* the values a read of the grid may yield: of the wave height a
\* not-a-number, 1.234, 8.004 and 12.5; of any other variable a
\* not-a-number and 12.345
RawValsOf(var) ==
    IF var = "htsgwsfc" THEN {NaN, Dec(1234, 3), Dec(8004, 3), Dec(125, 1)}
    ELSE {NaN, Dec(12345, 3)}

\* lines 242-244: the entry of one variable read as val
RecValue(v) == IF v = NaN THEN None ELSE Round(v, 2)

\* lines 246-248: rec.get("htsgwsfc") is truthy (present, not None, not 0)
\* and over 8.0
ValidateWave(rec) ==
    IF /\ "htsgwsfc" \in DOMAIN rec
       /\ rec["htsgwsfc"] # None
       /\ rec["htsgwsfc"] # Dec(0, 0)
       /\ GtDec(rec["htsgwsfc"], 80, 1)
    THEN [rec EXCEPT !["htsgwsfc"] = None]
    ELSE rec

\* a mutant of the loop body that fills a missing variable with None
HourRec_fill(present, raw) ==
    ValidateWave([v \in VARS |-> IF v \in present THEN RecValue(raw[v]) ELSE None])

\* lines 238-248: the mapping of one timestamp, raw being the values read
\* of the variables of the dataset that are requested
HourRec(present, raw) ==
    ValidateWave([v \in (VARS \cap present) |-> RecValue(raw[v])])

----------------------------------------------------------------------------
(* Spec: one run of main *)

Terminated == pc \in {"done", "exit1", "raised"}

Init ==
    /\ FilterIdle
    /\ ParseIdle
    /\ buoy_only \in BOOLEAN
    /\ xrAvailable \in BOOLEAN
    /\ pc = "main"
    /\ invoked = {}
    /\ fetchLog = <<>>
    /\ buoyJson = Absent
    /\ ForecastIdle

forecastVars ==
    <<day_offset, cycleIdx, url, ds, tried, selCount, ds_point, tPos, hours,
      rawHours, forecastJson>>
buoyLocals ==
    <<stdmet_text, spec_text, swdir_text, parsed, stdmetRet, spectralRet, spectralIdx>>

\* line 280: main calls fetch_buoy
MainCallBuoy ==
    /\ pc = "main"
    /\ pc' = "buoy_stdmet"
    /\ invoked' = invoked \cup {"fetch_buoy"}
    /\ UNCHANGED <<buoy_only, xrAvailable, fetchLog, buoyJson>>
    /\ UNCHANGED <<filterVars, buoyLocals, forecastVars>>

\* lines 164-165: the mandatory observation is fetched and parsed; a failed
\* fetch raises out of fetch_buoy and out of main
FetchStdmet ==
    /\ pc = "buoy_stdmet"
    /\ \/ /\ \E text \in PipeStdmetTexts :
               /\ stdmet_text' = text
               /\ stdmetRet' = parse_stdmet(text)
          /\ parsed' = parsed \cup {"parse_stdmet"}
          /\ fetchLog' = Append(fetchLog, [src |-> "stdmet", ok |-> TRUE])
          /\ pc' = "buoy_spec"
       \/ /\ fetchLog' = Append(fetchLog, [src |-> "stdmet", ok |-> FALSE])
          /\ pc' = "raised"
          /\ UNCHANGED <<stdmet_text, stdmetRet, parsed>>
    /\ UNCHANGED <<buoy_only, xrAvailable, invoked, buoyJson>>
    /\ UNCHANGED <<spec_text, swdir_text, spectralRet, spectralIdx>>
    /\ UNCHANGED <<filterVars, forecastVars>>

\* lines 168-170, 174-175: spectral = [] and the density text is fetched; a
\* failed fetch is caught and leaves the spectrum empty
FetchSpec ==
    /\ pc = "buoy_spec"
    /\ \/ /\ spec_text' \in PipeSpecTexts
          /\ fetchLog' = Append(fetchLog, [src |-> "data_spec", ok |-> TRUE])
          /\ pc' = "buoy_swdir"
       \/ /\ fetchLog' = Append(fetchLog, [src |-> "data_spec", ok |-> FALSE])
          /\ pc' = "buoy_write"
          /\ UNCHANGED spec_text
    /\ UNCHANGED <<buoy_only, xrAvailable, invoked, buoyJson>>
    /\ UNCHANGED <<stdmet_text, swdir_text, parsed, stdmetRet, spectralRet, spectralIdx>>
    /\ UNCHANGED <<filterVars, forecastVars>>

\* lines 171-175: the direction text is fetched and the two are merged; a
\* failed fetch is caught and leaves the spectrum empty
FetchSwdir ==
    /\ pc = "buoy_swdir"
    /\ \/ /\ \E text \in PipeSwdirTexts :
               /\ swdir_text' = text
               /\ spectralRet' = parse_data_spec(spec_text, text)
               /\ spectralIdx' = LET es == parse_data_spec_indexed(spec_text, text)
                                 IN [k \in 1..Len(es) |-> es[k].i]
          /\ parsed' = parsed \cup {"parse_data_spec"}
          /\ fetchLog' = Append(fetchLog, [src |-> "swdir", ok |-> TRUE])
       \/ /\ fetchLog' = Append(fetchLog, [src |-> "swdir", ok |-> FALSE])
          /\ UNCHANGED <<swdir_text, spectralRet, spectralIdx, parsed>>
    /\ pc' = "buoy_write"
    /\ UNCHANGED <<buoy_only, xrAvailable, invoked, buoyJson>>
    /\ UNCHANGED <<stdmet_text, spec_text, stdmetRet>>
    /\ UNCHANGED <<filterVars, forecastVars>>

\* the record of lines 177-182
BuoyResult == [buoy |-> BUOY, stdmet |-> stdmetRet, spectral |-> spectralRet]

\* a mutant of the write that leaves the spectrum out of a degraded record
BuoyWrite_skip ==
    /\ pc = "buoy_write"
    /\ buoyJson' = IF \E k \in 1..Len(fetchLog) : ~fetchLog[k].ok
                   THEN Absent ELSE BuoyResult
    /\ pc' = "buoy_return"
    /\ UNCHANGED <<buoy_only, xrAvailable, invoked, fetchLog>>
    /\ UNCHANGED <<filterVars, buoyLocals, forecastVars>>

\* lines 177-187: data/buoy.json is written and fetch_buoy returns
BuoyWrite ==
    /\ pc = "buoy_write"
    /\ buoyJson' = BuoyResult
    /\ pc' = "buoy_return"
    /\ UNCHANGED <<buoy_only, xrAvailable, invoked, fetchLog>>
    /\ UNCHANGED <<filterVars, buoyLocals, forecastVars>>

\* a mutant of main that runs the forecast path whatever the flag
MainAfterBuoy_always ==
    /\ pc = "buoy_return"
    /\ pc' = "fc_import"
    /\ invoked' = invoked \cup {"fetch_forecast"}
    /\ UNCHANGED <<buoy_only, xrAvailable, fetchLog, buoyJson>>
    /\ UNCHANGED <<filterVars, buoyLocals, forecastVars>>

\* lines 282-285: without --buoy-only main calls fetch_forecast, with it
\* main is done
MainAfterBuoy ==
    /\ pc = "buoy_return"
    /\ \/ /\ ~buoy_only
          /\ pc' = "fc_import"
          /\ invoked' = invoked \cup {"fetch_forecast"}
       \/ /\ buoy_only
          /\ pc' = "done"
          /\ UNCHANGED invoked
    /\ UNCHANGED <<buoy_only, xrAvailable, fetchLog, buoyJson>>
    /\ UNCHANGED <<filterVars, buoyLocals, forecastVars>>

\* a mutant of the capability check that goes on without xarray
FcImport_ignore ==
    /\ pc = "fc_import"
    /\ pc' = "fc_locate"
    /\ UNCHANGED <<buoy_only, xrAvailable, invoked, fetchLog, buoyJson>>
    /\ UNCHANGED <<filterVars, buoyLocals, forecastVars>>

\* lines 202-206: import xarray, or sys.exit(1)
FcImport ==
    /\ pc = "fc_import"
    /\ \/ /\ xrAvailable
          /\ pc' = "fc_locate"
       \/ /\ ~xrAvailable
          /\ pc' = "exit1"
    /\ UNCHANGED <<buoy_only, xrAvailable, invoked, fetchLog, buoyJson>>
    /\ UNCHANGED <<filterVars, buoyLocals, forecastVars>>

\* a dataset the candidate of this iteration may open as
OpenedAs(vs, n) ==
    [kind |-> "dataset", day |-> day_offset, cycle |-> Cycles[cycleIdx],
     vars |-> vs, nT |-> n]

\* a mutant of the candidate loop that tries the cycles oldest first
FcTry_oldestFirst ==
    /\ pc = "fc_locate"
    /\ LET cyc == Cycles[4 - cycleIdx] IN
       /\ url' = [day |-> day_offset, cycle |-> cyc]
       /\ \/ /\ \E vs \in DsVarSets, n \in 0..MaxHours :
                  ds' = [kind |-> "dataset", day |-> day_offset, cycle |-> cyc,
                         vars |-> vs, nT |-> n]
             /\ tried' = Append(tried, [day |-> day_offset, cycle |-> cyc, ok |-> TRUE])
             /\ pc' = "fc_check"
             /\ UNCHANGED <<day_offset, cycleIdx>>
          \/ /\ ds' = None
             /\ tried' = Append(tried, [day |-> day_offset, cycle |-> cyc, ok |-> FALSE])
             /\ IF cycleIdx < 3
                THEN cycleIdx' = cycleIdx + 1 /\ pc' = pc /\ UNCHANGED day_offset
                ELSE IF day_offset < 2
                THEN day_offset' = day_offset + 1 /\ cycleIdx' = 1 /\ pc' = pc
                ELSE pc' = "fc_check" /\ UNCHANGED <<day_offset, cycleIdx>>
    /\ UNCHANGED <<selCount, ds_point, tPos, hours, rawHours, forecastJson>>
    /\ UNCHANGED <<buoy_only, xrAvailable, invoked, fetchLog, buoyJson>>
    /\ UNCHANGED <<filterVars, buoyLocals>>

\* lines 211-225: one iteration of the candidate loops.  The open of the
\* candidate (day_offset, cycle) succeeds, and both loops are left, or it
\* fails, ds is None and the loops go on to the next cycle, the next day,
\* or end
FcTry ==
    /\ pc = "fc_locate"
    /\ url' = [day |-> day_offset, cycle |-> Cycles[cycleIdx]]
    /\ \/ /\ \E vs \in DsVarSets, n \in 0..MaxHours : ds' = OpenedAs(vs, n)
          /\ tried' = Append(tried, [day |-> day_offset, cycle |-> Cycles[cycleIdx],
                                     ok |-> TRUE])
          /\ pc' = "fc_check"
          /\ UNCHANGED <<day_offset, cycleIdx>>
       \/ /\ ds' = None
          /\ tried' = Append(tried, [day |-> day_offset, cycle |-> Cycles[cycleIdx],
                                     ok |-> FALSE])
          /\ IF cycleIdx < 3
             THEN cycleIdx' = cycleIdx + 1 /\ pc' = pc /\ UNCHANGED day_offset
             ELSE IF day_offset < 2
             THEN day_offset' = day_offset + 1 /\ cycleIdx' = 1 /\ pc' = pc
             ELSE pc' = "fc_check" /\ UNCHANGED <<day_offset, cycleIdx>>
    /\ UNCHANGED <<selCount, ds_point, tPos, hours, rawHours, forecastJson>>
    /\ UNCHANGED <<buoy_only, xrAvailable, invoked, fetchLog, buoyJson>>
    /\ UNCHANGED <<filterVars, buoyLocals>>

\* lines 227-233: no run opened: sys.exit(1).  Otherwise the nearest grid
\* point to (TARGET_LAT, gfs_lon) is selected
FcCheck ==
    /\ pc = "fc_check"
    /\ \/ /\ ds = None
          /\ pc' = "exit1"
          /\ UNCHANGED <<selCount, ds_point>>
       \/ /\ ds # None
          /\ selCount' = selCount + 1
          /\ ds_point' = [of |-> ds, lat |-> TARGET_LAT, lon |-> gfs_lon]
          /\ pc' = "fc_hours"
    /\ UNCHANGED <<day_offset, cycleIdx, url, ds, tried, tPos, hours, rawHours, forecastJson>>
    /\ UNCHANGED <<buoy_only, xrAvailable, invoked, fetchLog, buoyJson>>
    /\ UNCHANGED <<filterVars, buoyLocals>>

\* lines 236-250: the loop body for the timestamp at tPos of the time axis
FcHour ==
    /\ pc = "fc_hours"
    /\ tPos <= ds_point.of.nT
    /\ \E raw \in [VARS \cap ds_point.of.vars -> UNION {RawValsOf(v) : v \in VARS}] :
          /\ \A v \in DOMAIN raw : raw[v] \in RawValsOf(v)
          /\ hours' = Append(hours, [time |-> TimeAxis(ds_point.of.nT)[tPos],
                                     rec |-> HourRec(ds_point.of.vars, raw)])
          /\ rawHours' = Append(rawHours, [point |-> ds_point, raw |-> raw])
    /\ tPos' = tPos + 1
    /\ UNCHANGED <<day_offset, cycleIdx, url, ds, tried, selCount, ds_point, forecastJson>>
    /\ UNCHANGED <<buoy_only, xrAvailable, invoked, fetchLog, buoyJson, pc>>
    /\ UNCHANGED <<filterVars, buoyLocals>>

\* lines 252-266: the time axis is exhausted; the dataset is closed,
\* data/forecast.json is written and fetch_forecast returns; line 285
FcWrite ==
    /\ pc = "fc_hours"
    /\ tPos > ds_point.of.nT
    /\ forecastJson' = [model |-> "GFS-Wave", run |-> RunName(url),
                        lat |-> TARGET_LAT, lon |-> TARGET_LON, hours |-> hours]
    /\ pc' = "done"
    /\ UNCHANGED <<day_offset, cycleIdx, url, ds, tried, selCount, ds_point, tPos, hours, rawHours>>
    /\ UNCHANGED <<buoy_only, xrAvailable, invoked, fetchLog, buoyJson>>
    /\ UNCHANGED <<filterVars, buoyLocals>>

Next ==
    \/ MainCallBuoy
    \/ FetchStdmet
    \/ FetchSpec
    \/ FetchSwdir
    \/ BuoyWrite
    \/ MainAfterBuoy
    \/ FcImport
    \/ FcTry
    \/ FcCheck
    \/ FcHour
    \/ FcWrite

Spec == Init /\ [][Next]_vars

----------------------------------------------------------------------------
(* C1 *)

\* the token is a decimal numeral whose value is km / 10^ke, decided on the
\* digits as written
Denotes(tok, km, ke) ==
    /\ FloatOk(tok)
    /\ LET b == Unsigned(tok)
           sign == IF tok[1] = "-" THEN -1 ELSE 1
           written == sign * DigitsValue(b)
       IN IF ke >= FracLen(b)
          THEN written * Pow10(ke - FracLen(b)) = km
          ELSE written = km * Pow10(FracLen(b) - ke)

BaseSentinel(tok) ==
    Denotes(tok, 99, 0) \/ Denotes(tok, 999, 0) \/ Denotes(tok, 9999, 0)

\* C1: safe_float returns None for a text that is no number and for any
\* spelling of 99, 999 or 9999, and otherwise the converted number (9.9
\* included); safe_float_wave also returns None for 9.9.
C1_SentinelFilter ==
    /\ sfCall = "safe_float" =>
         /\ ~FloatOk(val) => sfRet = None
         /\ BaseSentinel(val) => sfRet = None
         /\ (FloatOk(val) /\ ~BaseSentinel(val)) =>
               /\ IsNum(sfRet)
               /\ Denotes(val, sfRet.m, sfRet.e)
         /\ Denotes(val, 99, 1) => sfRet = Dec(99, 1)
         /\ val \in {<<"9", "9">>, <<"9", "9", ".", "0">>, <<"9", "9", ".", "0", "0">>}
               => sfRet = None
    /\ sfCall = "safe_float_wave" =>
         /\ ~FloatOk(val) => sfRet = None
         /\ BaseSentinel(val) => sfRet = None
         /\ Denotes(val, 99, 1) => sfRet = None

\* safe_float has dropped the sentinel spelled 99.00
C1_Witness ==
    /\ sfCall = "safe_float"
    /\ val = <<"9", "9", ".", "0", "0">>
    /\ sfRet = None

----------------------------------------------------------------------------
(* C5 *)

\* the selected data row of a text (line index 2 of its lines), <<>> if none
RowOf(text) ==
    IF Len(StripLines(text)) < 3 THEN <<>> ELSE StripLines(text)[3]

\* the text has fewer than 3 lines, or its row at line index 2 fewer than n fields
TooShort(text, n) == Len(StripLines(text)) < 3 \/ Len(RowOf(text)) < n

\* C5: parse_stdmet returns None exactly when the text has fewer than 3
\* lines or its row at line index 2 has fewer than 13 fields, and otherwise a
\* Reading whose air / water temperature is None when the row has no field
\* 13 / 14; parse_data_spec returns [] when either text has fewer than 3
\* lines or either row fewer than 7 fields; neither raises.
C5_RecordLevelFailure ==
    /\ "parse_stdmet" \in parsed =>
         /\ stdmetRet # IndexError
         /\ (stdmetRet = None) <=> TooShort(stdmet_text, 13)
         /\ stdmetRet # None =>
               /\ stdmetRet.kind = "reading"
               /\ Len(RowOf(stdmet_text)) <= 13 => stdmetRet.airTemp_C = None
               /\ Len(RowOf(stdmet_text)) <= 14 => stdmetRet.waterTemp_C = None
    /\ "parse_data_spec" \in parsed =>
         /\ \A k \in 1..Len(spectralRet) : spectralRet[k] # IndexError
         /\ (TooShort(spec_text, 7) \/ TooShort(swdir_text, 7)) => spectralRet = <<>>

\* a Reading was built from a 14-field row: the air temperature was read,
\* the water temperature was not
C5_Witness ==
    /\ "parse_stdmet" \in parsed
    /\ Len(RowOf(stdmet_text)) = 14
    /\ stdmetRet # None
    /\ stdmetRet.kind = "reading"
    /\ stdmetRet.airTemp_C # None
    /\ stdmetRet.waterTemp_C = None

----------------------------------------------------------------------------
(* C3, C9 *)

\* both texts pass the guards of parse_data_spec, and it has run
Merged ==
    /\ "parse_data_spec" \in parsed
    /\ ~TooShort(spec_text, 7)
    /\ ~TooShort(swdir_text, 7)

\* the frequency tokens of the density text that convert to a number that
\* is no sentinel, in header order
KeptFreqToks ==
    SelectSeq(FreqTokens(StripLines(spec_text)), LAMBDA t : safe_float(t, {}) # None)

\* the density and direction tokens after the five timestamp tokens
DensityToksOf == From(RowOf(spec_text), 5)
DirectionToksOf == From(RowOf(swdir_text), 5)

\* the number of indices the merge loop runs over
MergeLen == Min3(Len(KeptFreqToks), Len(DensityToksOf), Len(DirectionToksOf))

\* index j (1-based) has a missing density or direction
Gap(j) ==
    \/ safe_float(DensityToksOf[j], {}) = None
    \/ safe_float(DirectionToksOf[j], {}) = None

C9_PositionalAlignment ==
    Merged =>
       /\ \A k \in 1..Len(spectralRet) :
            LET i == spectralIdx[k] IN
            /\ spectralRet[k].freq =
                  Round(safe_float(FreqTokens(StripLines(spec_text))[i], {}), 4)
            /\ spectralRet[k].energy = Round(safe_float(DensityToksOf[i], {}), 2)
            /\ spectralRet[k].direction_deg = Round(safe_float(DirectionToksOf[i], {}), 1)
       /\ \A k \in 1..(Len(spectralIdx) - 1) : spectralIdx[k] < spectralIdx[k + 1]

\* C9 as amended: the frequency tokens that are unparseable or a sentinel
\* are dropped before alignment; every bin combines the i-th remaining
\* frequency with the density and direction tokens at position i; bins
\* are in header order.
C9_AlignedAfterDrop ==
    Merged =>
       /\ \A k \in 1..Len(spectralRet) :
            LET i == spectralIdx[k] IN
            /\ i \in 1..MergeLen
            /\ spectralRet[k].freq = Round(safe_float(KeptFreqToks[i], {}), 4)
            /\ spectralRet[k].energy = Round(safe_float(DensityToksOf[i], {}), 2)
            /\ spectralRet[k].direction_deg = Round(safe_float(DirectionToksOf[i], {}), 1)
       /\ \A k \in 1..(Len(spectralIdx) - 1) : spectralIdx[k] < spectralIdx[k + 1]

\* the header's first frequency token is a sentinel, and the first bin
\* carries the second token's frequency with the first density
C9_Witness ==
    /\ Merged
    /\ Len(spectralRet) >= 1
    /\ spectralIdx[1] = 1
    /\ safe_float(FreqTokens(StripLines(spec_text))[1], {}) = None
    /\ spectralRet[1].freq = Dec(375, 4)

----------------------------------------------------------------------------
(* C2 *)

\* C2: a wave height over 8.0 is absent from the output on both paths: the
\* WVHT field of the buoy row in waveHeight_m, and the htsgwsfc value read
\* for a timestamp in that hour's record; so a wave height that is present
\* is at most 8.0.
C2_OverCeilingAbsent ==
    /\ stdmetRet.kind = "reading" =>
         LET wvht == RowOf(stdmet_text)[9] IN
         /\ (FloatOk(wvht) /\ GtDec(FloatVal(wvht), 80, 1))
               => stdmetRet.waveHeight_m = None
         /\ stdmetRet.waveHeight_m # None => ~GtDec(stdmetRet.waveHeight_m, 80, 1)
    /\ \A k \in 1..Len(hours) :
         "htsgwsfc" \in DOMAIN hours[k].rec =>
            LET read == rawHours[k].raw["htsgwsfc"]
                out == hours[k].rec["htsgwsfc"]
            IN /\ (IsNum(read) /\ GtDec(read, 80, 1)) => out = None
               /\ out # None => ~GtDec(out, 80, 1)

----------------------------------------------------------------------------
(* C4 *)

\* (day0,12),(day0,06),(day0,00),(day1,12), ... ,(day2,00)
CandidateOrder ==
    [k \in 1..9 |-> [day |-> (k - 1) \div 3,
                     cycle |-> <<"12", "06", "00">>[((k - 1) % 3) + 1]]]

AllFailed == Len(tried) = 9 /\ \A k \in 1..9 : ~tried[k].ok

\* C4: the opens are attempted in the order of CandidateOrder; none is
\* attempted after a successful one; the dataset extracted from and the run
\* named in the record are those of the successful candidate; the locator
\* fails only after all nine have been attempted and have failed.
C4_RunLocatorOrder ==
    /\ Len(tried) <= 9
    /\ \A k \in 1..Len(tried) :
          /\ tried[k].day = CandidateOrder[k].day
          /\ tried[k].cycle = CandidateOrder[k].cycle
          /\ k < Len(tried) => ~tried[k].ok
    /\ ds # None =>
          /\ tried[Len(tried)].ok
          /\ ds.day = tried[Len(tried)].day
          /\ ds.cycle = tried[Len(tried)].cycle
    /\ ds_point # Absent => ds # None /\ ds_point.of = ds
    /\ forecastJson # Absent =>
          /\ tried[Len(tried)].ok
          /\ forecastJson.run = <<"gfswave.global.0p16_", tried[Len(tried)].cycle, "z">>
    /\ (pc = "exit1" /\ xrAvailable) => AllFailed

\* the fifth candidate, (day1,06), opened after four failures and its run
\* is the one recorded
C4_Witness ==
    /\ forecastJson # Absent
    /\ Len(tried) = 5
    /\ tried[5] = [day |-> 1, cycle |-> "06", ok |-> TRUE]
    /\ forecastJson.run = <<"gfswave.global.0p16_", "06", "z">>

----------------------------------------------------------------------------
(* C6 *)

FetchFailed(src) == \E k \in 1..Len(fetchLog) : fetchLog[k].src = src /\ ~fetchLog[k].ok

\* C6: when the fetch of the density or of the direction text fails, the
\* buoy record is still written, with the parsed observation and an empty
\* spectrum; when the fetch of the observation fails, the failure leaves
\* fetch_buoy and no buoy record is written.
C6_BuoyFailurePropagation ==
    /\ ((FetchFailed("data_spec") \/ FetchFailed("swdir")) /\ pc # "buoy_write") =>
          /\ buoyJson # Absent
          /\ buoyJson.spectral = <<>>
          /\ buoyJson.stdmet = parse_stdmet(stdmet_text)
    /\ FetchFailed("stdmet") => pc = "raised" /\ buoyJson = Absent
    /\ pc = "raised" => FetchFailed("stdmet")

\* the direction fetch failed and the record holds the Reading and no bin
C6_Witness ==
    /\ FetchFailed("swdir")
    /\ buoyJson # Absent
    /\ buoyJson.stdmet.kind = "reading"
    /\ buoyJson.spectral = <<>>

----------------------------------------------------------------------------
(* C7 *)

\* C7: without the dataset-access capability the forecast path fails at
\* its start, no candidate probed; when no candidate opens it aborts after
\* the sweep; in both cases no forecast record is written; a record is
\* written only after a candidate has opened.
C7_ForecastFatal ==
    /\ ~xrAvailable =>
          /\ tried = <<>>
          /\ forecastJson = Absent
          /\ ("fetch_forecast" \in invoked /\ pc # "fc_import") => pc = "exit1"
    /\ (AllFailed /\ pc # "fc_check") => pc = "exit1"
    /\ pc = "exit1" =>
          /\ forecastJson = Absent
          /\ hours = <<>>
          /\ ~xrAvailable \/ AllFailed
    /\ forecastJson # Absent => \E k \in 1..Len(tried) : tried[k].ok

\* the forecast path has exited for want of the capability, the buoy
\* record being written
C7_Witness ==
    /\ ~xrAvailable
    /\ "fetch_forecast" \in invoked
    /\ pc = "exit1"
    /\ buoyJson # Absent

----------------------------------------------------------------------------
(* C8 *)

\* C8 as claimed: with --buoy-only the forecast path is never invoked; in
\* every run without it both paths are invoked.
C8_BothPathsRun ==
    /\ buoy_only => "fetch_forecast" \notin invoked
    /\ (Terminated /\ ~buoy_only) => invoked = {"fetch_buoy", "fetch_forecast"}

\* C8 as amended: with --buoy-only the forecast path is never invoked;
\* without it the buoy path is invoked first and the forecast path once
\* the buoy path has returned; when the observation fetch fails the run
\* ends in the buoy path and the forecast path is not invoked.
C8_ForecastAfterBuoyReturns ==
    /\ buoy_only => "fetch_forecast" \notin invoked
    /\ pc # "main" => "fetch_buoy" \in invoked
    /\ "fetch_forecast" \in invoked => buoyJson # Absent
    /\ (Terminated /\ ~buoy_only /\ pc # "raised")
          => invoked = {"fetch_buoy", "fetch_forecast"}
    /\ pc = "raised" => FetchFailed("stdmet") /\ invoked = {"fetch_buoy"}

\* a run without the flag has ended in the buoy path
C8_Witness ==
    /\ ~buoy_only
    /\ pc = "raised"
    /\ invoked = {"fetch_buoy"}

----------------------------------------------------------------------------
(* C10 *)

\* C10: the nearest grid cell is resolved once and every timestamp is read
\* at it; the record holds one hour per timestamp of the time axis, in its
\* order; an hour's mapping has a key for a requested variable exactly when
\* the dataset holds the variable; a not-a-number is recorded as None.
C10_GridPointExtraction ==
    /\ selCount <= 1
    /\ Len(hours) = Len(rawHours)
    /\ hours # <<>> => selCount = 1
    /\ \A k \in 1..Len(hours) :
          /\ rawHours[k].point = ds_point
          /\ rawHours[k].point.lat = Dec(41003, 3)
          /\ rawHours[k].point.lon = Dec(2884, 1)
          /\ k <= ds.nT
          /\ hours[k].time = TimeAxis(ds.nT)[k]
          /\ \A v \in VARS : v \in DOMAIN hours[k].rec <=> v \in ds.vars
          /\ DOMAIN hours[k].rec \subseteq VARS
          /\ \A v \in DOMAIN hours[k].rec :
                rawHours[k].raw[v] = NaN => hours[k].rec[v] = None
    /\ forecastJson # Absent =>
          /\ forecastJson.hours = hours
          /\ Len(hours) = ds.nT

\* a record of two hours from a dataset that holds perpwsfc alone, its
\* first value a not-a-number
C10_Witness ==
    /\ forecastJson # Absent
    /\ Len(forecastJson.hours) = 2
    /\ ds.vars = {"perpwsfc"}
    /\ DOMAIN forecastJson.hours[1].rec = {"perpwsfc"}
    /\ forecastJson.hours[1].rec["perpwsfc"] = None
    /\ selCount = 1

====
